---- MODULE Spec2Model ----
(***************************************************************************)
(* Canvas API (backend/canvas-api/index.py): one HTTP-triggered handler    *)
(* that stores canvas projects and their objects in a relational store.    *)
(*                                                                         *)
(* The handler is followed statement by statement: every invocation has a  *)
(* position pc, its own connection, cursor and transaction.  The store is  *)
(* the pair of tables with the store's transaction rules (statements of a  *)
(* transaction become visible to others at commit; closing a connection    *)
(* discards an uncommitted transaction).                                   *)
(*                                                                         *)
(* Timestamps are logical: the handler never looks at a timestamp, it only *)
(* orders by them, so they are kept as ranks 1..n (Restamp).               *)
(***************************************************************************)
EXTENDS Integers, Sequences, FiniteSets, TLC

\* ------------------------------------------------------------------ bounds
MaxProjects == 2    \* project ids the store's sequence hands out
MaxObjs == 2        \* longest objects list of a save_objects request
NInv == 2           \* handler invocations the host may run at once

Invs == 1..NInv
ObjIds == {"A", "B"}

\* ------------------------------------------------------------ option values
None == <<>>
Some(x) == <<x>>

\* ------------------------------------------------------------------ requests
\* obj['id'], obj['type'], obj['x'], obj['y'], obj['color'] are subscripted:
\* a missing one raises KeyError.  width, height, text are read with .get.
ReqFields == {"id", "type", "x", "y", "color"}

CompleteObjs == {[id |-> o, has |-> ReqFields] : o \in ObjIds}
\* The tuple of the INSERT reads obj['id'] first and obj['color'] last; an object
\* lacking any required field raises at that read, before the statement runs.
MissingChoices == {"id", "color"}
IncompleteObjs == {[id |-> "A", has |-> ReqFields \ {f}] : f \in MissingChoices}
ObjInputs == CompleteObjs \cup IncompleteObjs

ListsOf(S) == UNION {[1..n -> S] : n \in 0..MaxObjs}
\* The loop raises at the first incomplete object and reads nothing after it:
\* the lists with one end there.
ObjectLists ==
    {l \in ListsOf(ObjInputs) : \A n \in 1..Len(l) : l[n] \in IncompleteObjs => n = Len(l)}

\* Decimal strings of the ids, for the project_id query parameter.
IntStr == <<"1", "2", "3", "4", "5", "6">>
IsNumeric(s) == \E n \in 1..Len(IntStr) : IntStr[n] = s
ParseInt(s) == CHOOSE n \in 1..Len(IntStr) : IntStr[n] = s

Request(m, q, b, a, n, p, o) ==
    [method |-> m, query |-> q, body |-> b, action |-> a, name |-> n,
     project_id |-> p, objects |-> o]
NoReq == Request("", None, "absent", None, None, None, None)

OptionsRequests == {Request("OPTIONS", None, "absent", None, None, None, None)}
GetRequests ==
    {Request("GET", q, "absent", None, None, None, None) :
        q \in {None, Some(""), Some("abc")} \cup {Some(IntStr[n]) : n \in 1..MaxProjects}}
OtherMethodRequests ==
    {Request(m, None, "absent", None, None, None, None) : m \in {"PUT", "DELETE"}}
CreateRequests ==
    {Request("POST", None, "json", Some("create_project"), n, None, None) :
        n \in {None, Some("Demo")}}
SaveRequestsOf(Lists) ==
    {Request("POST", None, "json", Some("save_objects"), None, p, o) :
        p \in {None} \cup {Some(n) : n \in 1..MaxProjects},
        o \in {None} \cup {Some(l) : l \in Lists}}
OddPostRequests ==
    {Request("POST", None, "absent", None, None, None, None),
     Request("POST", None, "malformed", None, None, None, None),
     Request("POST", None, "json", None, None, None, None),
     Request("POST", None, "json", Some("rename_project"), None, None, None)}
AllRequests ==
    OptionsRequests \cup GetRequests \cup OtherMethodRequests \cup CreateRequests
        \cup SaveRequestsOf(ObjectLists) \cup OddPostRequests

\* body_data.get('objects', [])
ObjectsOf(r) == IF r.objects = None THEN <<>> ELSE r.objects[1]
IsCreate(r) == r.method = "POST" /\ r.body = "json" /\ r.action = Some("create_project")
IsSave(r) == r.method = "POST" /\ r.body = "json" /\ r.action = Some("save_objects")
\* `if project_id:` a present, non-empty string
HasProjectId(r) == r.query # None /\ r.query # Some("")

\* ----------------------------------------------------------------- responses
JsonHeaders ==
    {<<"Content-Type", "application/json">>, <<"Access-Control-Allow-Origin", "*">>}
PreflightHeaders ==
    {<<"Access-Control-Allow-Origin", "*">>,
     <<"Access-Control-Allow-Methods", "GET, POST, PUT, DELETE, OPTIONS">>,
     <<"Access-Control-Allow-Headers", "Content-Type">>,
     <<"Access-Control-Max-Age", "86400">>}

Body(kind, project, objs, projs, pid, err) ==
    [kind |-> kind, project |-> project, objects |-> objs, projects |-> projs,
     project_id |-> pid, error |-> err]
EmptyBody == Body("empty", None, <<>>, <<>>, 0, "")
ProjectBody(project, objs) == Body("project", project, objs, <<>>, 0, "")
ProjectsBody(projs) == Body("projects", None, <<>>, projs, 0, "")
CreatedBody(id) == Body("created", None, <<>>, <<>>, id, "")
SuccessBody == Body("success", None, <<>>, <<>>, 0, "")
ErrorBody == Body("error", None, <<>>, <<>>, 0, "Method not allowed")

Response(status, headers, body) ==
    [status |-> status, headers |-> headers, body |-> body, exc |-> ""]
\* The handler returns nothing: the exception leaves it.
Raised(exc) == [status |-> 0, headers |-> {}, body |-> EmptyBody, exc |-> exc]
NoResp == [status |-> 0, headers |-> {}, body |-> EmptyBody, exc |-> ""]

PreflightResponse == Response(200, PreflightHeaders, EmptyBody)
\* Faulty variant: the 405 response without the CORS header.
ErrorWithoutCors == Response(405, {<<"Content-Type", "application/json">>}, ErrorBody)
MethodNotAllowedResponse == Response(405, JsonHeaders, ErrorBody)
SuccessResponse == Response(200, JsonHeaders, SuccessBody)
CreatedResponse(id) == Response(201, JsonHeaders, CreatedBody(id))

\* json.dumps has no encoder for a timestamp value (datetime): TypeError.
TimestampColumns == {"created_at", "updated_at"}
Serializable(rows) == \A n \in 1..Len(rows) : DOMAIN rows[n] \cap TimestampColumns = {}
JsonResponse(status, body) ==
    IF Serializable(body.project) /\ Serializable(body.objects)
          /\ Serializable(body.projects)
    THEN Response(status, JsonHeaders, body)
    ELSE Raised("TypeError")

\* --------------------------------------------------------------------- store
VARIABLES
    projects,   \* committed rows of canvas_projects
    objects,    \* committed rows of canvas_objects
    nextId,     \* the sequence behind canvas_projects.id
    pc,         \* pc[i]: where invocation i stands in the handler
    req,        \* req[i]: the event of invocation i
    resp,       \* resp[i]: what invocation i returns (or the exception leaving it)
    conn,       \* conn[i]: "none", "open", "closed"
    cur,        \* cur[i]: "none", "open", "closed"
    tx,         \* tx[i]: the uncommitted transaction on conn[i]
    k,          \* k[i]: index of the next object of the save_objects loop
    fetched,    \* fetched[i]: the rows of the first SELECT of a GET
    before,     \* before[i]: the committed tables when invocation i began (history)
    mru         \* project ids, the most recently created or saved first (history)

vars == <<projects, objects, nextId, pc, req, resp, conn, cur, tx, k, fetched,
          before, mru>>

\* Rows.  created_at and updated_at are set by the store, not by the handler.
ProjectRow(id, name, description, ts) ==
    [id |-> id, name |-> name, description |-> description, updated_at |-> ts]
ObjectRow(pid, oid, ts) == [project_id |-> pid, object_id |-> oid, created_at |-> ts]

NoTx == [active |-> FALSE, ts |-> 0, deleted |-> {}, waitOn |-> {}, inserted |-> {},
         created |-> {}, touched |-> {}]

Ids(ps) == {p.id : p \in ps}
Max(S) == IF S = {} THEN 0 ELSE CHOOSE m \in S : \A n \in S : n <= m

\* Timestamps in use: in the committed tables and in the open transactions.
TxStamps(t) ==
    IF t.active
    THEN {t.ts} \cup {o.created_at : o \in t.deleted \cup t.waitOn}
    ELSE {}
TableStamps(ps, os) == {p.updated_at : p \in ps} \cup {o.created_at : o \in os}
Stamps(ps, os, txs, bf, ft) ==
    TableStamps(ps, os)
        \cup UNION {TxStamps(txs[j]) : j \in Invs}
        \cup UNION {TableStamps(bf[j].projects, bf[j].objects) : j \in Invs}
        \cup UNION {{ft[j][n].created_at : n \in 1..Len(ft[j])} : j \in Invs}

\* CURRENT_TIMESTAMP is the start time of the transaction: later than every
\* timestamp already handed out, the same for every statement of the transaction.
CurrentTimestamp(i) ==
    IF tx[i].active THEN tx[i].ts
    ELSE Max(Stamps(projects, objects, tx, before, fetched)) + 1
\* The default of the columns the handler does not set (created_at of both
\* tables, updated_at of a new project): the store's current timestamp.
ColumnDefault(i) == CurrentTimestamp(i)
\* psycopg2 opens the transaction at the connection's first execute.
Begun(i) == [tx[i] EXCEPT !.active = TRUE, !.ts = CurrentTimestamp(i)]

\* Timestamps are kept as ranks: order and equality are all a query can see.
Rank(t, T) == Cardinality({u \in T : u <= t})
RestampProjects(ps, T) == {[p EXCEPT !.updated_at = Rank(@, T)] : p \in ps}
RestampObjects(os, T) == {[o EXCEPT !.created_at = Rank(@, T)] : o \in os}
RestampTx(t, T) ==
    IF t.active
    THEN [t EXCEPT !.ts = Rank(@, T), !.deleted = RestampObjects(@, T),
                   !.waitOn = RestampObjects(@, T),
                   !.inserted = RestampObjects(@, T),
                   !.created = RestampProjects(@, T)]
    ELSE NoTx
\* The tables ps, os, the transactions txs and the rows bf, ft that invocations
\* hold, as the next state.
Restamp(ps, os, txs, bf, ft) ==
    LET T == Stamps(ps, os, txs, bf, ft) IN
    /\ projects' = RestampProjects(ps, T)
    /\ objects' = RestampObjects(os, T)
    /\ tx' = [j \in Invs |-> RestampTx(txs[j], T)]
    /\ before' = [j \in Invs |-> [projects |-> RestampProjects(bf[j].projects, T),
                                  objects |-> RestampObjects(bf[j].objects, T)]]
    /\ fetched' = [j \in Invs |->
                     [n \in 1..Len(ft[j]) |-> [ft[j][n] EXCEPT !.created_at = Rank(@, T)]]]

\* ORDER BY: every order of the rows that is sorted by the key; rows with equal
\* keys come in any order.
Orders(S) == {s \in [1..Cardinality(S) -> S] : \A x \in S : \E n \in DOMAIN s : s[n] = x}
OrderByCreatedAt(S) ==
    {s \in Orders(S) : \A a, b \in DOMAIN s : a < b => s[a].created_at <= s[b].created_at}
OrderByUpdatedAtDesc(S) ==
    {s \in Orders(S) : \A a, b \in DOMAIN s : a < b => s[a].updated_at >= s[b].updated_at}

\* Faulty variant: the SELECT of the objects without its WHERE clause.
SelectObjectsOfAll(os, pid) == OrderByCreatedAt(os)
\* SELECT * FROM canvas_objects WHERE project_id = %s ORDER BY created_at
SelectObjectsRows(os, pid) == OrderByCreatedAt({o \in os : o.project_id = pid})
\* SELECT * FROM canvas_projects WHERE id = %s, fetchone
SelectProjectRow(ps, pid) ==
    IF pid \in Ids(ps) THEN Some(CHOOSE p \in ps : p.id = pid) ELSE None
\* SELECT * FROM canvas_projects ORDER BY updated_at DESC
SelectProjectsRows(ps) == OrderByUpdatedAtDesc(ps)

\* The response of GET with project_id, from the rows of its two SELECTs.
GetProjectResponse(project, rows) == JsonResponse(200, ProjectBody(project, rows))
\* The response of GET without project_id.
ListProjectsResponse(rows) == JsonResponse(200, ProjectsBody(rows))
\* Everything GET ?project_id=q can answer on the tables ps, os.
GetOutcomes(ps, os, q) ==
    IF ~IsNumeric(q) THEN {Raised("ValueError")}
    ELSE {GetProjectResponse(SelectProjectRow(ps, ParseInt(q)), rows) :
            rows \in SelectObjectsRows(os, ParseInt(q))}

\* body_data.get('name', 'Untitled Project'), body_data.get('description', '')
NameOf(r) == IF r.name = None THEN "Untitled Project" ELSE r.name[1]
DescriptionOf(r) == ""

\* The schema of canvas_objects: project_id is required and references a
\* project; object_id is unique within a project.
NotNullOk(pid) == pid # None
ForeignKeyOk(i, pid) == pid # None /\ pid[1] \in Ids(projects) \cup Ids(tx[i].created)
VisibleObjects(i) == (objects \ tx[i].deleted) \cup tx[i].inserted
UniqueOk(i, pid, oid) ==
    pid = None \/ ~\E o \in VisibleObjects(i) : o.project_id = pid[1] /\ o.object_id = oid
ConstraintsOk(i, pid, oid) ==
    NotNullOk(pid) /\ ForeignKeyOk(i, pid) /\ UniqueOk(i, pid, oid)

\* Row locks of the other open transactions.
DeleteLocked(i, rows) == \E j \in Invs \ {i} : tx[j].active /\ rows \cap tx[j].deleted # {}
KeyHeldBy(j, pid, oid) ==
    /\ tx[j].active
    /\ \E o \in tx[j].inserted \cup tx[j].deleted : o.project_id = pid /\ o.object_id = oid
InsertBlockers(i, pid, oid) ==
    IF pid = None THEN {} ELSE {j \in Invs \ {i} : KeyHeldBy(j, pid[1], oid)}
ProjectLocked(i, pid) ==
    pid # None /\ \E j \in Invs \ {i} : tx[j].active /\ pid[1] \in tx[j].touched

Init ==
    /\ projects = {}
    /\ objects = {}
    /\ nextId = 1
    /\ pc = [i \in Invs |-> "idle"]
    /\ req = [i \in Invs |-> NoReq]
    /\ resp = [i \in Invs |-> NoResp]
    /\ conn = [i \in Invs |-> "none"]
    /\ cur = [i \in Invs |-> "none"]
    /\ tx = [i \in Invs |-> NoTx]
    /\ k = [i \in Invs |-> 0]
    /\ fetched = [i \in Invs |-> <<>>]
    /\ before = [i \in Invs |-> [projects |-> {}, objects |-> {}]]
    /\ mru = <<>>

\* ------------------------------------------------------------------- handler
\* What a transaction t leaves in the tables ps, os when it commits.
Commit(ps, os, t) ==
    [projects |-> {IF p.id \in t.touched THEN [p EXCEPT !.updated_at = t.ts] ELSE p :
                      p \in ps} \cup t.created,
     objects |-> (os \ t.deleted) \cup t.inserted]
\* Faulty variant: a commit in the finally block, before the connection is closed.
CloseCommits(ps, os, t) == Commit(ps, os, t)
\* conn.close() with a transaction open: the store discards it.
ConnClose(ps, os, t) == [projects |-> ps, objects |-> os]

MoveToFront(s, x) == <<x>> \o SelectSeq(s, LAMBDA y : y # x)

\* The steps of invocation i other than those written below stay as they are.
Keep(i, names) ==
    /\ IF "req" \in names THEN TRUE ELSE UNCHANGED req
    /\ IF "resp" \in names THEN TRUE ELSE UNCHANGED resp
    /\ IF "conn" \in names THEN TRUE ELSE UNCHANGED conn
    /\ IF "cur" \in names THEN TRUE ELSE UNCHANGED cur
    /\ IF "k" \in names THEN TRUE ELSE UNCHANGED k
    /\ IF "fetched" \in names THEN TRUE ELSE UNCHANGED fetched
    /\ IF "before" \in names THEN TRUE ELSE UNCHANGED before
    /\ IF "mru" \in names THEN TRUE ELSE UNCHANGED mru
    /\ IF "nextId" \in names THEN TRUE ELSE UNCHANGED nextId
    /\ IF "store" \in names THEN TRUE ELSE UNCHANGED <<projects, objects, tx>>

\* The handler leaves the try block with response r.
Leave(i, r) ==
    /\ resp' = [resp EXCEPT ![i] = r]
    /\ pc' = [pc EXCEPT ![i] = "finally"]

\* method == 'OPTIONS': returned before any store access.
Preflight(i, R) ==
    /\ pc[i] = "idle"
    /\ \E r \in R :
        /\ r.method = "OPTIONS"
        /\ req' = [req EXCEPT ![i] = r]
    /\ resp' = [resp EXCEPT ![i] = PreflightResponse]
    /\ pc' = [pc EXCEPT ![i] = "returned"]
    /\ Keep(i, {"req", "resp"})

\* conn = get_db_connection()
Connect(i, R) ==
    /\ pc[i] = "idle"
    /\ \E r \in R :
        /\ r.method # "OPTIONS"
        /\ IsCreate(r) => nextId <= MaxProjects
        /\ req' = [req EXCEPT ![i] = r]
    /\ conn' = [conn EXCEPT ![i] = "open"]
    /\ before' = [before EXCEPT ![i] = [projects |-> projects, objects |-> objects]]
    /\ pc' = [pc EXCEPT ![i] = "connected"]
    /\ Keep(i, {"req", "conn", "before"})

\* cur = conn.cursor()
Cursor(i) ==
    /\ pc[i] = "connected"
    /\ cur' = [cur EXCEPT ![i] = "open"]
    /\ pc' = [pc EXCEPT ![i] = "try"]
    /\ Keep(i, {"cur"})

\* GET with project_id: int(project_id) raises ValueError.
GetBadId(i) ==
    /\ pc[i] = "try"
    /\ req[i].method = "GET"
    /\ HasProjectId(req[i])
    /\ ~IsNumeric(req[i].query[1])
    /\ Leave(i, Raised("ValueError"))
    /\ Keep(i, {"resp"})

\* GET with project_id: the first SELECT, objects = cur.fetchall()
SelectObjects(i) ==
    /\ pc[i] = "try"
    /\ req[i].method = "GET"
    /\ HasProjectId(req[i])
    /\ IsNumeric(req[i].query[1])
    /\ \E rows \in SelectObjectsRows(objects, ParseInt(req[i].query[1])) :
        fetched' = [fetched EXCEPT ![i] = rows]
    /\ pc' = [pc EXCEPT ![i] = "select_project"]
    /\ Keep(i, {"fetched"})

\* GET with project_id: the second SELECT, project = cur.fetchone(), and the response
SelectProject(i) ==
    /\ pc[i] = "select_project"
    /\ LET project == SelectProjectRow(projects, ParseInt(req[i].query[1])) IN
       Leave(i, GetProjectResponse(project, fetched[i]))
    /\ Keep(i, {"resp"})

\* GET without project_id
ListProjects(i) ==
    /\ pc[i] = "try"
    /\ req[i].method = "GET"
    /\ ~HasProjectId(req[i])
    /\ \E rows \in SelectProjectsRows(projects) :
        Leave(i, ListProjectsResponse(rows))
    /\ Keep(i, {"resp"})

\* POST: json.loads(body) raises on a malformed body
BadJson(i) ==
    /\ pc[i] = "try"
    /\ req[i].method = "POST"
    /\ req[i].body = "malformed"
    /\ Leave(i, Raised("JSONDecodeError"))
    /\ Keep(i, {"resp"})

\* create_project: INSERT INTO canvas_projects ... RETURNING id
InsertProject(i) ==
    /\ pc[i] = "try"
    /\ IsCreate(req[i])
    /\ tx' = [tx EXCEPT ![i] =
                [Begun(i) EXCEPT !.created =
                    {ProjectRow(nextId, NameOf(req[i]), DescriptionOf(req[i]),
                                ColumnDefault(i))}]]
    /\ nextId' = nextId + 1
    /\ pc' = [pc EXCEPT ![i] = "create_commit"]
    /\ UNCHANGED <<projects, objects>>
    /\ Keep(i, {"store", "nextId"})

\* create_project: conn.commit() and the 201 response
CommitProject(i) ==
    /\ pc[i] = "create_commit"
    /\ LET project_id == (CHOOSE p \in tx[i].created : TRUE).id
           done == Commit(projects, objects, tx[i])
       IN /\ Restamp(done.projects, done.objects, [tx EXCEPT ![i] = NoTx], before, fetched)
          /\ mru' = <<project_id>> \o mru
          /\ Leave(i, CreatedResponse(project_id))
    /\ Keep(i, {"store", "before", "fetched", "mru", "resp"})

\* Faulty variant: save_objects without its DELETE.
DeleteNothing(i) == {}
\* save_objects: DELETE FROM canvas_objects WHERE project_id = %s
DeleteTargets(i) ==
    IF req[i].project_id = None THEN {}
    ELSE {o \in objects : o.project_id = req[i].project_id[1]}
DeleteObjects(i) ==
    /\ pc[i] = "try"
    /\ IsSave(req[i])
    /\ ~DeleteLocked(i, DeleteTargets(i))
    /\ tx' = [tx EXCEPT ![i] = [Begun(i) EXCEPT !.deleted = DeleteTargets(i)]]
    /\ k' = [k EXCEPT ![i] = 1]
    /\ pc' = [pc EXCEPT ![i] = "insert"]
    /\ UNCHANGED <<projects, objects>>
    /\ Keep(i, {"store", "k"})

\* Faulty variant: obj.get for the required fields, and the incomplete object falling
\* through to the return after the if/elif chain.
IncompleteFallsThrough(i) ==
    /\ pc[i] = "insert"
    /\ k[i] <= Len(ObjectsOf(req[i]))
    /\ ObjectsOf(req[i])[k[i]].has # ReqFields
    /\ Leave(i, MethodNotAllowedResponse)
    /\ Keep(i, {"resp"})
\* save_objects: obj['id'] ... obj['color'] of an object without one of them
InsertKeyError(i) ==
    /\ pc[i] = "insert"
    /\ k[i] <= Len(ObjectsOf(req[i]))
    /\ ObjectsOf(req[i])[k[i]].has # ReqFields
    /\ Leave(i, Raised("KeyError"))
    /\ Keep(i, {"resp"})

\* save_objects: INSERT INTO canvas_objects, refused by the schema
InsertRejected(i) ==
    /\ pc[i] = "insert"
    /\ k[i] <= Len(ObjectsOf(req[i]))
    /\ LET obj == ObjectsOf(req[i])[k[i]] IN
        /\ obj.has = ReqFields
        /\ InsertBlockers(i, req[i].project_id, obj.id) = {}
        /\ ~ConstraintsOk(i, req[i].project_id, obj.id)
    /\ Leave(i, Raised("IntegrityError"))
    /\ Keep(i, {"resp"})

\* save_objects: INSERT INTO canvas_objects
InsertObject(i) ==
    /\ pc[i] = "insert"
    /\ k[i] <= Len(ObjectsOf(req[i]))
    /\ LET obj == ObjectsOf(req[i])[k[i]] IN
        /\ obj.has = ReqFields
        /\ InsertBlockers(i, req[i].project_id, obj.id) = {}
        /\ ConstraintsOk(i, req[i].project_id, obj.id)
        /\ tx' = [tx EXCEPT ![i].inserted =
                    @ \cup {ObjectRow(req[i].project_id[1], obj.id, ColumnDefault(i))}]
    /\ k' = [k EXCEPT ![i] = @ + 1]
    /\ UNCHANGED <<projects, objects, pc>>
    /\ Keep(i, {"store", "k"})

\* save_objects: UPDATE canvas_projects SET updated_at = CURRENT_TIMESTAMP WHERE id = %s
UpdateProject(i) ==
    /\ pc[i] = "insert"
    /\ k[i] > Len(ObjectsOf(req[i]))
    /\ ~ProjectLocked(i, req[i].project_id)
    /\ tx' = [tx EXCEPT ![i].touched =
                IF req[i].project_id = None THEN {}
                ELSE {req[i].project_id[1]} \cap Ids(projects)]
    /\ pc' = [pc EXCEPT ![i] = "commit"]
    /\ UNCHANGED <<projects, objects>>
    /\ Keep(i, {"store"})

\* save_objects: conn.commit() and the 200 response
CommitSave(i) ==
    /\ pc[i] = "commit"
    /\ LET done == Commit(projects, objects, tx[i]) IN
        Restamp(done.projects, done.objects, [tx EXCEPT ![i] = NoTx], before, fetched)
    /\ mru' = IF tx[i].touched = {} THEN mru
              ELSE MoveToFront(mru, req[i].project_id[1])
    /\ Leave(i, SuccessResponse)
    /\ Keep(i, {"store", "before", "fetched", "mru", "resp"})

\* The return after the if/elif chain: a method other than GET and POST, or a
\* POST whose action is neither create_project nor save_objects.
MethodNotAllowed(i) ==
    /\ pc[i] = "try"
    /\ \/ req[i].method \notin {"GET", "POST"}
       \/ /\ req[i].method = "POST"
          /\ req[i].body # "malformed"
          /\ ~IsCreate(req[i])
          /\ ~IsSave(req[i])
    /\ Leave(i, MethodNotAllowedResponse)
    /\ Keep(i, {"resp"})

\* finally: cur.close(); conn.close()
Finally(i) ==
    /\ pc[i] = "finally"
    /\ cur' = [cur EXCEPT ![i] = "closed"]
    /\ conn' = [conn EXCEPT ![i] = "closed"]
    /\ LET left == ConnClose(projects, objects, tx[i]) IN
        Restamp(left.projects, left.objects, [tx EXCEPT ![i] = NoTx], before, fetched)
    /\ pc' = [pc EXCEPT ![i] = "returned"]
    /\ Keep(i, {"cur", "conn", "store", "before", "fetched"})

\* The host has the response; the invocation is over.
Return(i) ==
    /\ pc[i] = "returned"
    /\ pc' = [pc EXCEPT ![i] = "idle"]
    /\ req' = [req EXCEPT ![i] = NoReq]
    /\ resp' = [resp EXCEPT ![i] = NoResp]
    /\ conn' = [conn EXCEPT ![i] = "none"]
    /\ cur' = [cur EXCEPT ![i] = "none"]
    /\ k' = [k EXCEPT ![i] = 0]
    /\ Restamp(projects, objects, tx,
               [before EXCEPT ![i] = [projects |-> {}, objects |-> {}]],
               [fetched EXCEPT ![i] = <<>>])
    /\ Keep(i, {"req", "resp", "conn", "cur", "k", "store", "fetched", "before"})

\* One invocation at a time, on a store that answers.
Next ==
    \/ Preflight(1, AllRequests)
    \/ Connect(1, AllRequests)
    \/ Cursor(1)
    \/ GetBadId(1)
    \/ SelectObjects(1)
    \/ SelectProject(1)
    \/ ListProjects(1)
    \/ BadJson(1)
    \/ InsertProject(1)
    \/ CommitProject(1)
    \/ DeleteObjects(1)
    \/ InsertKeyError(1)
    \/ InsertRejected(1)
    \/ InsertObject(1)
    \/ UpdateProject(1)
    \/ CommitSave(1)
    \/ MethodNotAllowed(1)
    \/ Finally(1)
    \/ Return(1)

Spec == Init /\ [][Next]_vars

\* -------------------------------------------------------- a store that fails
\* get_db_connection() raises: no connection, the try block is never entered.
ConnectFails(i, R) ==
    /\ pc[i] = "idle"
    /\ \E r \in R :
        /\ r.method # "OPTIONS"
        /\ req' = [req EXCEPT ![i] = r]
    /\ before' = [before EXCEPT ![i] = [projects |-> projects, objects |-> objects]]
    /\ resp' = [resp EXCEPT ![i] = Raised("OperationalError")]
    /\ pc' = [pc EXCEPT ![i] = "returned"]
    /\ Keep(i, {"req", "resp", "before"})

\* conn.cursor() raises: it stands before the try, so the finally does not run.
CursorFails(i) ==
    /\ pc[i] = "connected"
    /\ resp' = [resp EXCEPT ![i] = Raised("InterfaceError")]
    /\ pc' = [pc EXCEPT ![i] = "returned"]
    /\ Keep(i, {"resp"})

\* The next thing invocation i does is a statement on the store (or the commit).
AtStatement(i) ==
    \/ /\ pc[i] = "try"
       /\ \/ req[i].method = "GET" /\ (HasProjectId(req[i]) => IsNumeric(req[i].query[1]))
          \/ IsCreate(req[i])
          \/ IsSave(req[i])
    \/ pc[i] \in {"select_project", "create_commit", "delete_wait", "commit"}
    \/ /\ pc[i] = "insert"
       /\ k[i] <= Len(ObjectsOf(req[i])) => ObjectsOf(req[i])[k[i]].has = ReqFields

\* cur.execute or conn.commit raises: the store is gone or refuses the statement.
StatementFails(i) ==
    /\ AtStatement(i)
    /\ Leave(i, Raised("DatabaseError"))
    /\ Keep(i, {"resp"})

\* The requests sent to the failing store: every kind of request, the projects
\* created under the default name.
FaultRequests == {r \in AllRequests : IsCreate(r) => r.name = None}

NextFault ==
    \/ Preflight(1, FaultRequests)
    \/ Connect(1, FaultRequests)
    \/ Cursor(1)
    \/ GetBadId(1)
    \/ SelectObjects(1)
    \/ SelectProject(1)
    \/ ListProjects(1)
    \/ BadJson(1)
    \/ InsertProject(1)
    \/ CommitProject(1)
    \/ DeleteObjects(1)
    \/ InsertKeyError(1)
    \/ InsertRejected(1)
    \/ InsertObject(1)
    \/ UpdateProject(1)
    \/ CommitSave(1)
    \/ MethodNotAllowed(1)
    \/ Finally(1)
    \/ Return(1)
    \/ ConnectFails(1, FaultRequests)
    \/ CursorFails(1)
    \/ StatementFails(1)

SpecFault == Init /\ [][NextFault]_vars

\* -------------------------------------------------- invocations side by side
\* DELETE finds rows that another open transaction has deleted: it waits for
\* that transaction to end, holding the rows its snapshot found.
DeleteBlocks(i) ==
    /\ pc[i] = "try"
    /\ IsSave(req[i])
    /\ DeleteLocked(i, DeleteTargets(i))
    /\ tx' = [tx EXCEPT ![i] = [Begun(i) EXCEPT !.waitOn = DeleteTargets(i)]]
    /\ pc' = [pc EXCEPT ![i] = "delete_wait"]
    /\ UNCHANGED <<projects, objects>>
    /\ Keep(i, {"store"})

\* The other transaction ended: the waiting DELETE deletes those of its rows that
\* are still there.  Rows committed since its snapshot are not among them.
DeleteResume(i) ==
    /\ pc[i] = "delete_wait"
    /\ ~DeleteLocked(i, tx[i].waitOn)
    /\ tx' = [tx EXCEPT ![i].deleted = tx[i].waitOn \cap objects, ![i].waitOn = {}]
    /\ k' = [k EXCEPT ![i] = 1]
    /\ pc' = [pc EXCEPT ![i] = "insert"]
    /\ UNCHANGED <<projects, objects>>
    /\ Keep(i, {"store", "k"})

\* Invocation j waits, in its INSERT, for a key that invocation i holds.
InsertWaitsFor(j, i) ==
    /\ pc[j] = "insert"
    /\ k[j] <= Len(ObjectsOf(req[j]))
    /\ ObjectsOf(req[j])[k[j]].has = ReqFields
    /\ i \in InsertBlockers(j, req[j].project_id, ObjectsOf(req[j])[k[j]].id)

\* Two INSERTs wait for each other: the store ends one of them with an error.
InsertDeadlock(i) ==
    /\ \E j \in Invs \ {i} : InsertWaitsFor(i, j) /\ InsertWaitsFor(j, i)
    /\ Leave(i, Raised("DeadlockDetected"))
    /\ Keep(i, {"resp"})

\* Requests on project 1: its GET, and its saves of lists without a repeated id.
DistinctLists ==
    {l \in ListsOf(CompleteObjs) : \A a, b \in 1..Len(l) : l[a].id = l[b].id => a = b}
ConcRequests ==
    {Request("GET", Some(IntStr[1]), "absent", None, None, None, None)}
        \cup {Request("POST", None, "json", Some("save_objects"), None, Some(1), Some(l)) :
                l \in DistinctLists}

\* After create_project and a save_objects: project 1 exists, with the objects of
\* its last save.  Every invocation then serves one request.
InitConc ==
    /\ projects = {ProjectRow(1, "Demo", "", 1)}
    /\ \E S \in SUBSET ObjIds : objects = {ObjectRow(1, o, 1) : o \in S}
    /\ nextId = 2
    /\ pc = [i \in Invs |-> "idle"]
    /\ req = [i \in Invs |-> NoReq]
    /\ resp = [i \in Invs |-> NoResp]
    /\ conn = [i \in Invs |-> "none"]
    /\ cur = [i \in Invs |-> "none"]
    /\ tx = [i \in Invs |-> NoTx]
    /\ k = [i \in Invs |-> 0]
    /\ fetched = [i \in Invs |-> <<>>]
    /\ before = [i \in Invs |-> [projects |-> {}, objects |-> {}]]
    /\ mru = <<1>>

NextConc ==
    \E i \in Invs :
        \/ Connect(i, ConcRequests)
        \/ Cursor(i)
        \/ SelectObjects(i)
        \/ SelectProject(i)
        \/ DeleteObjects(i)
        \/ DeleteBlocks(i)
        \/ DeleteResume(i)
        \/ InsertRejected(i)
        \/ InsertObject(i)
        \/ InsertDeadlock(i)
        \/ UpdateProject(i)
        \/ CommitSave(i)
        \/ Finally(i)

SpecConc == InitConc /\ [][NextConc]_vars

\* -------------------------------------------------------------------- claims
RowsOf(os, pid) == {o \in os : o.project_id = pid}
ObjIdsOf(rows) == {o.object_id : o \in rows}
ListIds(l) == [n \in 1..Len(l) |-> l[n].id]
RowIds(rows) == [n \in 1..Len(rows) |-> rows[n].object_id]
ProjectIds(rows) == [n \in 1..Len(rows) |-> rows[n].id]
HasIncomplete(l) == \E n \in 1..Len(l) : l[n].has # ReqFields
StoreAsBefore(i) == projects = before[i].projects /\ objects = before[i].objects
SavedOk(i) == pc[i] = "returned" /\ IsSave(req[i]) /\ resp[i].status = 200

\* C1: after a successful save_objects(P, L) the rows of P are exactly the objects
\* of L, one row per object_id: none of the rows P had before is left, nothing is
\* appended, the rows of the other projects are as before.  The same save again
\* therefore leaves the same rows.
C1_SaveIsFullReplace ==
    \A i \in Invs :
        SavedOk(i) =>
            IF req[i].project_id = None THEN objects = before[i].objects
            ELSE LET P == req[i].project_id[1]
                     L == ObjectsOf(req[i])
                     rows == RowsOf(objects, P)
                 IN /\ ObjIdsOf(rows) = {L[n].id : n \in 1..Len(L)}
                    /\ Cardinality(rows) = Len(L)
                    /\ \A a, b \in rows : a.object_id = b.object_id => a = b
                    /\ rows \cap before[i].objects = {}
                    /\ objects \ rows = before[i].objects \ RowsOf(before[i].objects, P)
\* The second of two successive saves of the same two objects has returned.
C1_Witness ==
    \E i \in Invs :
        /\ SavedOk(i)
        /\ req[i].project_id # None
        /\ Len(ObjectsOf(req[i])) = 2
        /\ ObjIdsOf(RowsOf(before[i].objects, req[i].project_id[1]))
             = {ObjectsOf(req[i])[n].id : n \in 1..2}
        /\ \E o \in objects : o.project_id # req[i].project_id[1]

\* C2: after a successful save_objects(P, L), GET ?project_id=P answers 200 with
\* the objects in the order of L.
C2_GetReturnsSavedOrder ==
    \A i \in Invs :
        (SavedOk(i) /\ req[i].project_id # None) =>
            \A r \in GetOutcomes(projects, objects, IntStr[req[i].project_id[1]]) :
                /\ r.status = 200
                /\ RowIds(r.body.objects) = ListIds(ObjectsOf(req[i]))

\* C3: a save_objects that raises after its DELETE and some INSERTs leaves the
\* committed tables as they were: the project's objects and its updated_at.
C3_FailedSaveLeavesStore ==
    \A i \in Invs :
        (pc[i] = "returned" /\ IsSave(req[i]) /\ resp[i].exc # "") => StoreAsBefore(i)
\* A save that deleted the project's rows, inserted one object and then raised.
C3_Witness ==
    \E i \in Invs :
        /\ pc[i] = "returned"
        /\ IsSave(req[i])
        /\ resp[i].exc \in {"KeyError", "IntegrityError", "DatabaseError"}
        /\ k[i] = 2
        /\ req[i].project_id # None
        /\ RowsOf(before[i].objects, req[i].project_id[1]) # {}

\* C4: no invocation other than OPTIONS ends with its connection or cursor open.
C4_ConnectionAndCursorReleased ==
    \A i \in Invs :
        (pc[i] = "returned" /\ req[i].method # "OPTIONS") =>
            conn[i] # "open" /\ cur[i] # "open"

\* C5: create_project with name N answers 201 with an id no project had, and the
\* GET of that id answers the project named N (Untitled Project without a name)
\* with no objects.
C5_CreateThenGet ==
    \A i \in Invs :
        (pc[i] = "returned" /\ IsCreate(req[i])) =>
            /\ resp[i].status = 201
            /\ resp[i].body.project_id \notin Ids(before[i].projects)
            /\ \A r \in GetOutcomes(projects, objects, IntStr[resp[i].body.project_id]) :
                /\ r.status = 200
                /\ r.body.project # None
                /\ r.body.project[1].name = NameOf(req[i])
                /\ r.body.objects = <<>>

\* C6: every row of canvas_objects belongs to an existing project, and GET with
\* the id of no project answers 200 with project null and no objects.
C6_ObjectsBelongToProjects ==
    /\ \A o \in objects : o.project_id \in Ids(projects)
    /\ \A i \in Invs :
        (/\ pc[i] = "returned"
         /\ req[i].method = "GET"
         /\ HasProjectId(req[i])
         /\ IsNumeric(req[i].query[1])
         /\ ParseInt(req[i].query[1]) \notin Ids(projects)) =>
            /\ resp[i].status = 200
            /\ resp[i].headers = JsonHeaders
            /\ resp[i].body.kind = "project"
            /\ resp[i].body.project = None
            /\ resp[i].body.objects = <<>>
\* GET of an id that no project has, while another project has objects.
C6_Witness ==
    \E i \in Invs :
        /\ pc[i] = "returned"
        /\ req[i].method = "GET"
        /\ HasProjectId(req[i])
        /\ IsNumeric(req[i].query[1])
        /\ ParseInt(req[i].query[1]) \notin Ids(projects)
        /\ resp[i].status = 200
        /\ objects # {}

\* C7: GET without project_id answers 200 with all projects, the most recently
\* created or saved first.
C7_ListMostRecentFirst ==
    \A i \in Invs :
        (pc[i] = "returned" /\ req[i].method = "GET" /\ ~HasProjectId(req[i])) =>
            /\ resp[i].status = 200
            /\ ProjectIds(resp[i].body.projects) = mru

\* C8 as stated: a POST with an unknown action, or a save_objects without
\* project_id or with an incomplete object, answers 405 and changes nothing.
C8_IncompletePostIs405 ==
    \A i \in Invs :
        (/\ pc[i] = "returned"
         /\ req[i].method = "POST"
         /\ req[i].body # "malformed"
         /\ \/ ~IsCreate(req[i]) /\ ~IsSave(req[i])
            \/ IsSave(req[i]) /\ req[i].project_id = None
            \/ IsSave(req[i]) /\ HasIncomplete(ObjectsOf(req[i]))) =>
            /\ resp[i].status = 405
            /\ resp[i].body.error = "Method not allowed"
            /\ StoreAsBefore(i)
\* C8 amended: a POST with an unknown or missing action answers 405 and changes
\* nothing; a POST with a known action never answers 405: a save_objects with an
\* incomplete object raises and changes nothing, a save_objects without
\* project_id and without objects answers 200 and changes nothing.
C8_UnknownActionIs405 ==
    \A i \in Invs :
        (pc[i] = "returned" /\ req[i].method = "POST" /\ req[i].body # "malformed") =>
            /\ (~IsCreate(req[i]) /\ ~IsSave(req[i])) =>
                    /\ resp[i].status = 405
                    /\ resp[i].headers = JsonHeaders
                    /\ resp[i].body.kind = "error"
                    /\ resp[i].body.error = "Method not allowed"
                    /\ StoreAsBefore(i)
            /\ (IsCreate(req[i]) \/ IsSave(req[i])) => resp[i].status # 405
            /\ (IsSave(req[i]) /\ HasIncomplete(ObjectsOf(req[i]))) =>
                    resp[i].exc # "" /\ StoreAsBefore(i)
            /\ (IsSave(req[i]) /\ req[i].project_id = None /\ ObjectsOf(req[i]) = <<>>) =>
                    resp[i].status = 200 /\ StoreAsBefore(i)
\* A save_objects whose second object lacks a field has raised KeyError, on a
\* project that had objects.
C8_Witness ==
    \E i \in Invs :
        /\ pc[i] = "returned"
        /\ IsSave(req[i])
        /\ HasIncomplete(ObjectsOf(req[i]))
        /\ resp[i].exc = "KeyError"
        /\ k[i] = 2
        /\ objects # {}

\* C9: a method other than GET, POST and OPTIONS answers 405 with the error body
\* and the JSON and CORS headers, and changes no row.
C9_OtherMethodIs405 ==
    \A i \in Invs :
        (pc[i] = "returned" /\ req[i].method \notin {"GET", "POST", "OPTIONS"}) =>
            /\ resp[i].status = 405
            /\ resp[i].body.kind = "error"
            /\ resp[i].body.error = "Method not allowed"
            /\ resp[i].headers = {<<"Content-Type", "application/json">>,
                                  <<"Access-Control-Allow-Origin", "*">>}
            /\ StoreAsBefore(i)
\* DELETE has been answered 405 on a store that holds projects and objects.
C9_Witness ==
    \E i \in Invs :
        /\ pc[i] = "returned"
        /\ req[i].method = "DELETE"
        /\ resp[i].status = 405
        /\ objects # {}

\* C10: when two save_objects of one project, run side by side, have both
\* succeeded, the project's rows are those of one of the two lists, all from one
\* save; and the rows a GET fetches are all from one save.
C10_ConcurrentSavesReplace ==
    /\ \A i, j \in Invs :
        (/\ i # j
         /\ SavedOk(i) /\ SavedOk(j)
         /\ req[i].project_id = req[j].project_id) =>
            LET rows == RowsOf(objects, req[i].project_id[1]) IN
            /\ \/ ObjIdsOf(rows) = {ObjectsOf(req[i])[n].id : n \in 1..Len(ObjectsOf(req[i]))}
               \/ ObjIdsOf(rows) = {ObjectsOf(req[j])[n].id : n \in 1..Len(ObjectsOf(req[j]))}
            /\ \A a, b \in rows : a.created_at = b.created_at
    /\ \A i \in Invs :
        \A a, b \in 1..Len(fetched[i]) : fetched[i][a].created_at = fetched[i][b].created_at

====
